---- MODULE Spec2Model ----
(***************************************************************************)
(* Model of pkg/fleet/installer/service/datadog_agent.go: the setup,       *)
(* teardown and experiment orchestration of the agent's systemd units.     *)
(*                                                                         *)
(* Every call the orchestrators make to an external primitive is one step  *)
(* of the model.  The primitives themselves (loadUnit, startUnit, ...) are *)
(* not part of this file; their effect on the host is modelled from the    *)
(* design document: each is idempotent and scoped to one unit.             *)
(***************************************************************************)
EXTENDS Integers, Sequences, FiniteSets, TLC

\* ------------------------------------------------------------------------
\* Bounds of the model
\* ------------------------------------------------------------------------
\* top-level invocations made by the caller in one behaviour
MaxCalls == 2
\* failures the environment injects in one behaviour
MaxFaults == 2

\* ------------------------------------------------------------------------
\* Unit registry
\* ------------------------------------------------------------------------
agentUnit == "datadog-agent.service"
traceAgentUnit == "datadog-agent-trace.service"
processAgentUnit == "datadog-agent-process.service"
systemProbeUnit == "datadog-agent-sysprobe.service"
securityAgentUnit == "datadog-agent-security.service"
agentExp == "datadog-agent-exp.service"
traceAgentExp == "datadog-agent-trace-exp.service"
processAgentExp == "datadog-agent-process-exp.service"
systemProbeExp == "datadog-agent-sysprobe-exp.service"
securityAgentExp == "datadog-agent-security-exp.service"

stableUnits ==
  <<agentUnit, traceAgentUnit, processAgentUnit, systemProbeUnit, securityAgentUnit>>

experimentalUnits ==
  <<agentExp, traceAgentExp, processAgentExp, systemProbeExp, securityAgentExp>>

Range(s) == {s[k] : k \in 1..Len(s)}

StableSet == Range(stableUnits)

ExpSet == Range(experimentalUnits)

AllUnits == StableSet \cup ExpSet

\* ------------------------------------------------------------------------
\* Errors.  An error value is the text of its message, kept as the sequence
\* of the pieces it was formatted from; the nil error is the empty sequence.
\* ------------------------------------------------------------------------
Nil == <<>>

\* texts of the errors the external primitives return
ErrTexts == {"exit status 1"}

\* fmt.Errorf("Failed to <action> %s: %s", unit, err)
Errorf(action, unit, e) == <<"Failed to ", action, " ", unit, ": ">> \o e

\* fmt.Errorf("Failed to remove agent symlink: %s", err)
ErrorfSymlink(e) == <<"Failed to remove agent symlink: ">> \o e

\* ------------------------------------------------------------------------
\* Host state and the external primitives
\* ------------------------------------------------------------------------
NoInstallInfo == <<>>

AbsentHost ==
  [loaded |-> {}, enabled |-> {}, running |-> {}, symlink |-> FALSE,
   installInfo |-> NoInstallInfo]

loadUnit(h, u) == [h EXCEPT !.loaded = @ \cup {u}]

enableUnit(h, u) == [h EXCEPT !.enabled = @ \cup {u}]

startUnit(h, u) == [h EXCEPT !.running = @ \cup {u}]

stopUnit(h, u) == [h EXCEPT !.running = @ \ {u}]

disableUnit(h, u) == [h EXCEPT !.enabled = @ \ {u}]

removeUnit(h, u) == [h EXCEPT !.loaded = @ \ {u}]

systemdReload(h) == h

createAgentSymlink(h) == [h EXCEPT !.symlink = TRUE]

rmAgentSymlink(h) == [h EXCEPT !.symlink = FALSE]

WriteInstallInfo(h, tool, version) == [h EXCEPT !.installInfo = <<tool, version>>]

RmInstallInfo(h) == [h EXCEPT !.installInfo = NoInstallInfo]

\* the host as a successful installation leaves it
InstalledHost ==
  [loaded |-> AllUnits, enabled |-> StableSet, running |-> StableSet,
   symlink |-> TRUE, installInfo |-> <<"installer_package", "manual_update">>]

Baselines == {AbsentHost, InstalledHost}

\* the host after the unit primitive op has acted on unit u
Apply(op, h, u) ==
  CASE op = "loadUnit" -> loadUnit(h, u)
    [] op = "enableUnit" -> enableUnit(h, u)
    [] op = "startUnit" -> startUnit(h, u)
    [] op = "stopUnit" -> stopUnit(h, u)
    [] op = "disableUnit" -> disableUnit(h, u)
    [] op = "removeUnit" -> removeUnit(h, u)
    [] OTHER -> h

\* a unit the service manager does not know can be neither enabled nor started
CanSucceed(op, h, u) ==
  IF op \in {"enableUnit", "startUnit"} THEN u \in h.loaded ELSE TRUE

\* ------------------------------------------------------------------------
\* Group membership text of the installer identity (output of `id -Gn`)
\* ------------------------------------------------------------------------
AgentGroup == <<"d", "d", "-", "a", "g", "e", "n", "t">>

InstallerGroup == <<"d", "d", "-", "i", "n", "s", "t", "a", "l", "l", "e", "r">>

GroupOutputs ==
  { InstallerGroup \o <<"\n">>,
    InstallerGroup \o <<" ">> \o AgentGroup \o <<"\n">>,
    InstallerGroup \o <<" ">> \o AgentGroup \o <<"s", "\n">>,
    <<"\n">> }

\* no query output at hand
NoOutput == <<>>

\* strings.HasPrefix(s, sub) in the place of strings.Contains(s, sub)
HasPrefix(s, sub) == Len(s) >= Len(sub) /\ SubSeq(s, 1, Len(sub)) = sub

\* strings.Contains(s, sub)
Contains(s, sub) ==
  \E k \in 0..(Len(s) - Len(sub)) : SubSeq(s, k + 1, k + Len(sub)) = sub

\* ------------------------------------------------------------------------
\* State
\* ------------------------------------------------------------------------
VARIABLES
  host,     \* what the service manager and the filesystem hold
  origin,   \* the host as it was before the first invocation
  base,     \* the host as it was when the running (or last) invocation began
  pc,       \* position of the running invocation, "idle" between invocations
  i,        \* index of the range loop the invocation is in
  fn,       \* the function the caller invoked last
  caller,   \* who called the running RemoveAgent: "caller" or "SetupAgent"
  err,      \* SetupAgent's named result
  ret,      \* what the last invocation returned to the caller
  log,      \* the external calls of the running (or last) invocation, in order
  calls,    \* the invocations that have returned: function and result
  faults,   \* failures injected so far
  out,      \* the text the group query of the step just taken printed
  replay,   \* whether the primitives behave in a repeated SetupAgent as in the first
  prev,     \* under replay, the calls of the SetupAgent that ran just before
  prevRet   \* under replay, what that SetupAgent returned

vars == <<host, origin, base, pc, i, fn, caller, err, ret, log, calls, faults, out,
          replay, prev, prevRet>>

Start ==
  /\ host \in Baselines
  /\ origin = host
  /\ base = host
  /\ pc = "idle"
  /\ i = 1
  /\ fn = "none"
  /\ caller = "caller"
  /\ err = Nil
  /\ ret = Nil
  /\ log = <<>>
  /\ calls = <<>>
  /\ faults = 0
  /\ out = NoOutput
  /\ prev = <<>>
  /\ prevRet = Nil

\* the primitives are free to behave differently from one call to the next
Init == Start /\ replay = FALSE

\* a primitive called again by a SetupAgent that directly follows a first
\* SetupAgent behaves as it did in the first; the failures of the second are
\* those of the first over again, and are counted anew
InitTwice == Start /\ replay = TRUE

\* ------------------------------------------------------------------------
\* One external call: it succeeds with its effect, or fails with an error
\* text, and a failed call may or may not have had its effect
\* ------------------------------------------------------------------------
Outcomes(h, h2, can) ==
  {[err |-> Nil, host |-> h2, fault |-> 0] : x \in IF can THEN {1} ELSE {}}
  \cup {[err |-> <<e>>, host |-> h, fault |-> 0] :
          e \in IF can THEN {} ELSE ErrTexts}
  \cup {[err |-> <<t[1]>>, host |-> t[2], fault |-> 1] :
          t \in IF can /\ faults < MaxFaults THEN ErrTexts \X {h, h2} ELSE {}}

UnitOutcomes(op, u) == Outcomes(host, Apply(op, host, u), CanSucceed(op, host, u))

LogEntry(op, u, e) == [op |-> op, unit |-> u, err |-> e]

\* the invocation returns r to the caller
Returns(r) ==
  /\ pc' = "idle"
  /\ ret' = r
  /\ calls' = Append(calls, [fn |-> fn, ok |-> r = Nil])

Call(f, entry) ==
  /\ pc = "idle"
  /\ Len(calls) < MaxCalls
  /\ fn' = f
  /\ pc' = entry
  /\ i' = 1
  /\ caller' = "caller"
  /\ err' = Nil
  /\ ret' = Nil
  /\ log' = <<>>
  /\ base' = host
  /\ out' = NoOutput
  /\ IF replay /\ f = "SetupAgent" /\ fn = "SetupAgent" /\ Len(calls) = 1
       THEN prev' = log /\ prevRet' = ret /\ faults' = 0
       ELSE prev' = <<>> /\ prevRet' = Nil /\ faults' = faults
  /\ UNCHANGED <<host, origin, calls, replay>>

\* ------------------------------------------------------------------------
\* SetupAgent
\* ------------------------------------------------------------------------
Call_SetupAgent == Call("SetupAgent", "setup_group")

\* setInstallerAgentGroup: its result and the external calls it made, for a
\* query that printed text with error qerr and a helper that returns herr
setInstallerAgentGroup(text, qerr, herr) ==
  IF qerr # Nil
    THEN [err |-> qerr, ops |-> <<LogEntry("id", "", qerr)>>]
    ELSE IF Contains(text, AgentGroup)
      THEN [err |-> Nil, ops |-> <<LogEntry("id", "", Nil)>>]
      ELSE [err |-> herr,
            ops |-> <<LogEntry("id", "", Nil),
                      LogEntry("executeHelperCommand", "addInstallerToAgentGroup", herr)>>]

\* Setup_Group without its early return: loading goes on after a failed check
Setup_Group_NoReturn ==
  /\ pc = "setup_group"
  /\ \E o \in GroupOutputs, qerr \in {Nil} \cup {<<e>> : e \in ErrTexts},
        herr \in {Nil} \cup {<<e>> : e \in ErrTexts} :
       LET r == setInstallerAgentGroup(o, qerr, herr) IN
         /\ r.err # Nil => faults < MaxFaults
         /\ qerr # Nil => herr = Nil
         /\ faults' = IF r.err # Nil THEN faults + 1 ELSE faults
         /\ err' = r.err
         /\ out' = o
         /\ log' = log \o r.ops
         /\ pc' = "setup_load_stable"
  /\ i' = 1
  /\ UNCHANGED <<replay, prev, prevRet, host, origin, base, fn, caller, ret, calls>>

\* if err = setInstallerAgentGroup(ctx); err != nil { return }
Setup_Group ==
  /\ pc = "setup_group"
  /\ \E o \in GroupOutputs, qerr \in {Nil} \cup {<<e>> : e \in ErrTexts},
        herr \in {Nil} \cup {<<e>> : e \in ErrTexts} :
       LET r == setInstallerAgentGroup(o, qerr, herr) IN
         /\ r.err # Nil => faults < MaxFaults
         /\ qerr # Nil => herr = Nil
         /\ faults' = IF r.err # Nil THEN faults + 1 ELSE faults
         /\ err' = r.err
         /\ out' = o
         /\ log' = log \o r.ops
         /\ pc' = IF r.err # Nil THEN "setup_defer" ELSE "setup_load_stable"
  /\ i' = 1
  /\ UNCHANGED <<replay, prev, prevRet, host, origin, base, fn, caller, ret, calls>>

\* for _, unit := range units { if err = op(ctx, unit); err != nil { return } }
SetupLoop(here, op, units, next) ==
  /\ pc = here
  /\ \E o \in UnitOutcomes(op, units[i]) :
       /\ host' = o.host
       /\ faults' = faults + o.fault
       /\ err' = o.err
       /\ log' = Append(log, LogEntry(op, units[i], o.err))
       /\ IF o.err # Nil
            THEN pc' = "setup_defer" /\ i' = i
            ELSE IF i < Len(units)
              THEN pc' = here /\ i' = i + 1
              ELSE pc' = next /\ i' = 1
  /\ out' = NoOutput
  /\ UNCHANGED <<replay, prev, prevRet, origin, base, fn, caller, ret, calls>>

\* if err = op(ctx); err != nil { return }
SetupGlobal(here, op, h2, next) ==
  /\ pc = here
  /\ \E o \in Outcomes(host, h2, TRUE) :
       /\ host' = o.host
       /\ faults' = faults + o.fault
       /\ err' = o.err
       /\ log' = Append(log, LogEntry(op, "", o.err))
       /\ pc' = IF o.err # Nil THEN "setup_defer" ELSE next
  /\ out' = NoOutput
  /\ UNCHANGED <<replay, prev, prevRet, origin, base, i, fn, caller, ret, calls>>

\* Setup_LoadStable going on to the reload, past the experimental loads
Setup_LoadStable_ThenReload ==
  SetupLoop("setup_load_stable", "loadUnit", stableUnits, "setup_reload")

Setup_LoadStable == SetupLoop("setup_load_stable", "loadUnit", stableUnits, "setup_load_exp")

Setup_LoadExp == SetupLoop("setup_load_exp", "loadUnit", experimentalUnits, "setup_reload")

\* Setup_Reload without its early return: a failed reload is followed by the enables
Setup_Reload_NoReturn ==
  /\ pc = "setup_reload"
  /\ \E o \in Outcomes(host, systemdReload(host), TRUE) :
       /\ host' = o.host
       /\ faults' = faults + o.fault
       /\ err' = o.err
       /\ log' = Append(log, LogEntry("systemdReload", "", o.err))
       /\ pc' = "setup_enable"
  /\ out' = NoOutput
  /\ UNCHANGED <<replay, prev, prevRet, origin, base, i, fn, caller, ret, calls>>

Setup_Reload == SetupGlobal("setup_reload", "systemdReload", systemdReload(host), "setup_enable")

\* Setup_Enable ranging over both channels
Setup_Enable_BothChannels ==
  SetupLoop("setup_enable", "enableUnit", stableUnits \o experimentalUnits, "setup_start")

Setup_Enable == SetupLoop("setup_enable", "enableUnit", stableUnits, "setup_start")

\* Setup_Start going on to the marker, past the symlink
Setup_Start_ThenInstallInfo ==
  SetupLoop("setup_start", "startUnit", stableUnits, "setup_installinfo")

Setup_Start == SetupLoop("setup_start", "startUnit", stableUnits, "setup_symlink")

Setup_Symlink ==
  SetupGlobal("setup_symlink", "createAgentSymlink", createAgentSymlink(host),
              "setup_installinfo")

\* Setup_WriteInstallInfo with the two tags in the wrong order
Setup_WriteInstallInfo_Swapped ==
  SetupGlobal("setup_installinfo", "WriteInstallInfo",
              WriteInstallInfo(host, "manual_update", "installer_package"),
              "setup_defer")

Setup_WriteInstallInfo ==
  SetupGlobal("setup_installinfo", "WriteInstallInfo",
              WriteInstallInfo(host, "installer_package", "manual_update"),
              "setup_defer")

\* Setup_Defer with a rollback that skips the experimental stops
Setup_Defer_StableOnly ==
  /\ pc = "setup_defer"
  /\ IF err # Nil
       THEN /\ pc' = "rm_stop_stable"
            /\ i' = 1
            /\ caller' = "SetupAgent"
            /\ log' = Append(log, LogEntry("RemoveAgent", "", Nil))
            /\ UNCHANGED <<ret, calls>>
       ELSE /\ Returns(err)
            /\ UNCHANGED <<i, caller, log>>
  /\ out' = NoOutput
  /\ UNCHANGED <<replay, prev, prevRet, host, origin, base, fn, err, faults>>

\* Setup_Defer reverting only what was set up on a host without an agent
Setup_Defer_FreshOnly ==
  /\ pc = "setup_defer"
  /\ IF err # Nil /\ base = AbsentHost
       THEN /\ pc' = "rm_stop_exp"
            /\ i' = 1
            /\ caller' = "SetupAgent"
            /\ log' = Append(log, LogEntry("RemoveAgent", "", Nil))
            /\ UNCHANGED <<ret, calls>>
       ELSE /\ Returns(err)
            /\ UNCHANGED <<i, caller, log>>
  /\ out' = NoOutput
  /\ UNCHANGED <<replay, prev, prevRet, host, origin, base, fn, err, faults>>

\* the deferred function, entered at every return of SetupAgent: it calls
\* RemoveAgent when err is set, and returns err otherwise
Setup_Defer ==
  /\ pc = "setup_defer"
  /\ IF err # Nil
       THEN /\ pc' = "rm_stop_exp"
            /\ i' = 1
            /\ caller' = "SetupAgent"
            /\ log' = Append(log, LogEntry("RemoveAgent", "", Nil))
            /\ UNCHANGED <<ret, calls>>
       ELSE /\ Returns(err)
            /\ UNCHANGED <<i, caller, log>>
  /\ out' = NoOutput
  /\ UNCHANGED <<replay, prev, prevRet, host, origin, base, fn, err, faults>>

\* err = RemoveAgent(ctx): what the deferred function leaves in err
DeferredErr(setupErr, revertErr) == revertErr

\* RemoveAgent has returned into the deferred function; SetupAgent returns
Setup_DeferReturn ==
  /\ pc = "setup_defer_ret"
  /\ Returns(err)
  /\ out' = NoOutput
  /\ UNCHANGED <<replay, prev, prevRet, host, origin, base, i, fn, caller, err, log, faults>>

\* ------------------------------------------------------------------------
\* RemoveAgent
\* ------------------------------------------------------------------------
Call_RemoveAgent == Call("RemoveAgent", "rm_stop_exp")

\* RemoveAgent returns e: into SetupAgent's deferred function, or to the caller
RemoveReturns(e) ==
  IF caller = "SetupAgent"
    THEN /\ pc' = "setup_defer_ret"
         /\ err' = DeferredErr(err, e)
         /\ UNCHANGED <<ret, calls>>
    ELSE /\ Returns(e)
         /\ UNCHANGED err

\* one unit call of RemoveAgent's loops:
\*   if err := op(ctx, unit); err != nil {
\*     return fmt.Errorf("Failed to <action> %s: %s", unit, err) }
\* a success goes on to position next with index nextIdx, or to position
\* after when the loop is over
RemoveStep(here, op, action, units, next, nextIdx, last, after) ==
  /\ pc = here
  /\ \E o \in UnitOutcomes(op, units[i]) :
       /\ host' = o.host
       /\ faults' = faults + o.fault
       /\ log' = Append(log, LogEntry(op, units[i], o.err))
       /\ IF o.err # Nil
            THEN /\ RemoveReturns(Errorf(action, units[i], o.err))
                 /\ i' = i
            ELSE /\ IF last
                      THEN pc' = after /\ i' = 1
                      ELSE pc' = next /\ i' = nextIdx
                 /\ UNCHANGED <<err, ret, calls>>
  /\ out' = NoOutput
  /\ UNCHANGED <<replay, prev, prevRet, origin, base, fn, caller>>

\* Rm_StopExp leaving its loop one unit early
Rm_StopExp_OffByOne ==
  RemoveStep("rm_stop_exp", "stopUnit", "stop", experimentalUnits,
             "rm_stop_exp", i + 1, i = Len(experimentalUnits) - 1, "rm_stop_stable")

Rm_StopExp ==
  RemoveStep("rm_stop_exp", "stopUnit", "stop", experimentalUnits,
             "rm_stop_exp", i + 1, i = Len(experimentalUnits), "rm_stop_stable")

\* Rm_StopStable leaving its loop one unit early
Rm_StopStable_OffByOne ==
  RemoveStep("rm_stop_stable", "stopUnit", "stop", stableUnits,
             "rm_stop_stable", i + 1, i = Len(stableUnits) - 1, "rm_disable_exp")

Rm_StopStable ==
  RemoveStep("rm_stop_stable", "stopUnit", "stop", stableUnits,
             "rm_stop_stable", i + 1, i = Len(stableUnits), "rm_disable_exp")

\* Rm_DisableExp reporting its failure under the action of the next call
Rm_DisableExp_WrongAction ==
  RemoveStep("rm_disable_exp", "disableUnit", "remove", experimentalUnits,
             "rm_remove_exp", i, FALSE, "rm_remove_exp")

Rm_DisableExp ==
  RemoveStep("rm_disable_exp", "disableUnit", "disable", experimentalUnits,
             "rm_remove_exp", i, FALSE, "rm_remove_exp")

Rm_RemoveExp ==
  RemoveStep("rm_remove_exp", "removeUnit", "remove", experimentalUnits,
             "rm_disable_exp", i + 1, i = Len(experimentalUnits), "rm_disable_stable")

Rm_DisableStable ==
  RemoveStep("rm_disable_stable", "disableUnit", "disable", stableUnits,
             "rm_remove_stable", i, FALSE, "rm_remove_stable")

\* Rm_RemoveStable leaving its loop one unit early
Rm_RemoveStable_OffByOne ==
  RemoveStep("rm_remove_stable", "removeUnit", "remove", stableUnits,
             "rm_disable_stable", i + 1, i = Len(stableUnits) - 1, "rm_symlink")

Rm_RemoveStable ==
  RemoveStep("rm_remove_stable", "removeUnit", "remove", stableUnits,
             "rm_disable_stable", i + 1, i = Len(stableUnits), "rm_symlink")

\* Rm_Symlink trying again after a failure
Rm_Symlink_Retries ==
  /\ pc = "rm_symlink"
  /\ \E o \in Outcomes(host, rmAgentSymlink(host), TRUE) :
       /\ host' = o.host
       /\ faults' = faults + o.fault
       /\ log' = Append(log, LogEntry("rmAgentSymlink", "", o.err))
       /\ pc' = IF o.err # Nil THEN "rm_symlink" ELSE "rm_installinfo"
       /\ UNCHANGED <<err, ret, calls>>
  /\ out' = NoOutput
  /\ UNCHANGED <<replay, prev, prevRet, origin, base, i, fn, caller>>

\* if err := rmAgentSymlink(ctx); err != nil { return fmt.Errorf(...) }
Rm_Symlink ==
  /\ pc = "rm_symlink"
  /\ \E o \in Outcomes(host, rmAgentSymlink(host), TRUE) :
       /\ host' = o.host
       /\ faults' = faults + o.fault
       /\ log' = Append(log, LogEntry("rmAgentSymlink", "", o.err))
       /\ IF o.err # Nil
            THEN RemoveReturns(ErrorfSymlink(o.err))
            ELSE pc' = "rm_installinfo" /\ UNCHANGED <<err, ret, calls>>
  /\ out' = NoOutput
  /\ UNCHANGED <<replay, prev, prevRet, origin, base, i, fn, caller>>

\* Rm_InstallInfo returning nil without clearing the marker
Rm_InstallInfo_Keeps ==
  /\ pc = "rm_installinfo"
  /\ host' = host
  /\ log' = Append(log, LogEntry("RmInstallInfo", "", Nil))
  /\ RemoveReturns(Nil)
  /\ out' = NoOutput
  /\ UNCHANGED <<replay, prev, prevRet, origin, base, i, fn, caller, faults>>

\* installinfo.RmInstallInfo(); return nil
Rm_InstallInfo ==
  /\ pc = "rm_installinfo"
  /\ host' = RmInstallInfo(host)
  /\ log' = Append(log, LogEntry("RmInstallInfo", "", Nil))
  /\ RemoveReturns(Nil)
  /\ out' = NoOutput
  /\ UNCHANGED <<replay, prev, prevRet, origin, base, i, fn, caller, faults>>

\* ------------------------------------------------------------------------
\* Experiment controller
\* ------------------------------------------------------------------------
\* return startUnit(ctx, unit), the whole body of both experiment functions
Experiment(f, op, unit) ==
  /\ pc = "idle"
  /\ Len(calls) < MaxCalls
  /\ \E o \in UnitOutcomes(op, unit) :
       /\ host' = o.host
       /\ faults' = faults + o.fault
       /\ log' = <<LogEntry(op, unit, o.err)>>
       /\ ret' = o.err
       /\ calls' = Append(calls, [fn |-> f, ok |-> o.err = Nil])
  /\ fn' = f
  /\ base' = host
  /\ out' = NoOutput
  /\ prev' = <<>>
  /\ prevRet' = Nil
  /\ UNCHANGED <<origin, replay, pc, i, caller, err>>

\* StartAgentExperiment starting the stable main unit
StartAgentExperiment_Stable == Experiment("StartAgentExperiment", "startUnit", agentUnit)

StartAgentExperiment == Experiment("StartAgentExperiment", "startUnit", agentExp)

StopAgentExperiment == Experiment("StopAgentExperiment", "startUnit", agentUnit)

\* ------------------------------------------------------------------------
Next ==
  \/ Call_SetupAgent
  \/ Setup_Group
  \/ Setup_LoadStable
  \/ Setup_LoadExp
  \/ Setup_Reload
  \/ Setup_Enable
  \/ Setup_Start
  \/ Setup_Symlink
  \/ Setup_WriteInstallInfo
  \/ Setup_Defer
  \/ Setup_DeferReturn
  \/ Call_RemoveAgent
  \/ Rm_StopExp
  \/ Rm_StopStable
  \/ Rm_DisableExp
  \/ Rm_RemoveExp
  \/ Rm_DisableStable
  \/ Rm_RemoveStable
  \/ Rm_Symlink
  \/ Rm_InstallInfo
  \/ StartAgentExperiment
  \/ StopAgentExperiment

Spec == Init /\ [][Next]_vars

\* the call of the running SetupAgent at position k of the log returned what
\* the same call returned in the SetupAgent before
Agrees(k) ==
  \A j \in 1..Len(prev) :
    (prev[j].op = log[k].op /\ prev[j].unit = log[k].unit) => prev[j].err = log[k].err

\* the group query printed a text with the group in it, or failed
QuerySaidMember(l) == ~(Len(l) >= 2 /\ l[2].op = "executeHelperCommand")

\* the calls made so far by a repeated SetupAgent behaved as in the first
Replayed ==
  \/ prev = <<>>
  \/ log = <<>>
  \/ /\ \A k \in {Len(log) - 1, Len(log)} \cap (1..Len(log)) : Agrees(k)
     /\ Len(log) <= 2 => (QuerySaidMember(log) <=> QuerySaidMember(prev))

NextTwice == Next /\ Replayed'

SpecTwice == InitTwice /\ [][NextTwice]_vars

\* ------------------------------------------------------------------------
\* Properties
\* ------------------------------------------------------------------------
ForwardOps ==
  {"loadUnit", "systemdReload", "enableUnit", "startUnit", "createAgentSymlink",
   "WriteInstallInfo"}

UnitOps == {"loadUnit", "enableUnit", "startUnit", "stopUnit", "disableUnit", "removeUnit"}

GroupOps == {"id", "executeHelperCommand"}

Min(S) == CHOOSE x \in S : \A y \in S : x <= y

\* positions of the log where RemoveAgent was invoked as the rollback
Rollbacks == {k \in 1..Len(log) : log[k].op = "RemoveAgent"}

\* positions of the failed external calls
FailedAt == {k \in 1..Len(log) : log[k].err # Nil}

\* the calls SetupAgent made itself, before any rollback
SetupPart == IF Rollbacks = {} THEN log ELSE SubSeq(log, 1, Min(Rollbacks) - 1)

\* the calls of the RemoveAgent run of this invocation
TeardownPart ==
  IF fn = "RemoveAgent" THEN log
  ELSE IF Rollbacks = {} THEN <<>>
  ELSE SubSeq(log, Min(Rollbacks) + 1, Len(log))

SetupFailed == \E k \in 1..Len(SetupPart) : SetupPart[k].err # Nil

SetupReturned == pc = "idle" /\ fn = "SetupAgent"

RemoveReturned == pc = "idle" /\ fn = "RemoveAgent"

\* the teardown sequence of the design: stop experimental, stop stable,
\* disable and remove experimental, disable and remove stable, symlink, marker
Pairs(units) ==
  [k \in 1..(2 * Len(units)) |->
     <<IF k % 2 = 1 THEN "disableUnit" ELSE "removeUnit", units[(k + 1) \div 2]>>]

FullTeardown ==
  [k \in 1..Len(experimentalUnits) |-> <<"stopUnit", experimentalUnits[k]>>]
  \o [k \in 1..Len(stableUnits) |-> <<"stopUnit", stableUnits[k]>>]
  \o Pairs(experimentalUnits)
  \o Pairs(stableUnits)
  \o << <<"rmAgentSymlink", "">>, <<"RmInstallInfo", "">> >>

Issued(l) == [k \in 1..Len(l) |-> <<l[k].op, l[k].unit>>]

\* C1 (as claimed): when a step of SetupAgent failed, SetupAgent returns the
\* error of the step that failed first, whatever the rollback returned, and
\* so never returns nil.
C1_ReturnsFirstError ==
  (SetupReturned /\ SetupFailed) =>
    /\ ret = log[Min(FailedAt)].err
    /\ ret # Nil

\* C2: a SetupAgent in which a step failed invokes RemoveAgent exactly once;
\* that teardown starts at the stop of the first experimental unit and walks
\* the teardown sequence of the full registry, to its end or to its first
\* failure; a failed teardown is not followed by another rollback.
C2_FullRollbackOnce ==
  SetupReturned =>
    LET rb == Rollbacks
        first == IF rb = {} THEN Len(log) + 1 ELSE Min(rb)
        t == SubSeq(log, first + 1, Len(log))
        failed == \E k \in 1..(first - 1) : log[k].err # Nil
    IN /\ Cardinality(rb) <= 1
       /\ (rb # {}) =>
            /\ failed
            /\ Len(t) <= Len(FullTeardown)
            /\ Issued(t) = SubSeq(FullTeardown, 1, Len(t))
            /\ \A k \in 1..Len(t) : t[k].err # Nil => k = Len(t)
       /\ failed =>
            /\ Cardinality(rb) = 1
            /\ Len(t) >= 1
            /\ \/ Len(t) = Len(FullTeardown)
               \/ t[Len(t)].err # Nil

\* a failure of the third enable, rolled back by a complete teardown
C2_Witness ==
  /\ SetupReturned
  /\ \E k \in 1..Len(log) :
       /\ log[k].err # Nil
       /\ log[k].op = "enableUnit"
       /\ log[k].unit = processAgentUnit
  /\ Len(TeardownPart) = Len(FullTeardown)

PreconditionFailed ==
  /\ fn = "SetupAgent"
  /\ \E k \in 1..Len(log) : log[k].op \in GroupOps /\ log[k].err # Nil

C4_ExperimentalStoppedFirst ==
  pc = "idle" =>
  LET t == TeardownPart
      stableStops == {k \in 1..Len(t) : t[k].op = "stopUnit" /\ t[k].unit \in StableSet}
  IN stableStops # {} =>
       \A e \in ExpSet :
         \E j \in 1..(Min(stableStops) - 1) :
           /\ t[j].op = "stopUnit"
           /\ t[j].unit = e
           /\ t[j].err = Nil

\* a RemoveAgent that failed while stopping a stable unit
C4_Witness ==
  /\ RemoveReturned
  /\ ret # Nil
  /\ Len(log) > Len(experimentalUnits)
  /\ log[Len(log)].op = "stopUnit"
  /\ log[Len(log)].unit = traceAgentUnit

\* C5: SetupAgent, rollback included, never issues startUnit or enableUnit
\* on an experimental unit; loadUnit is the only forward operation it issues
\* on one.
C5_ExperimentalOnlyLoaded ==
  SetupReturned =>
    \A k \in 1..Len(log) :
      (log[k].unit \in ExpSet /\ log[k].op \in ForwardOps) => log[k].op = "loadUnit"

\* a failed SetupAgent that had loaded every experimental unit and was rolled back
C5_Witness ==
  /\ SetupReturned
  /\ ret = Nil
  /\ Len(TeardownPart) = Len(FullTeardown)
  /\ \A e \in ExpSet :
       \E k \in 1..Len(log) : log[k].op = "loadUnit" /\ log[k].unit = e

TeardownOps ==
  {"RemoveAgent", "stopUnit", "disableUnit", "removeUnit", "rmAgentSymlink",
   "RmInstallInfo"}

\* C6: a SetupAgent that began on an all-absent host and in which every step
\* succeeded returns nil and leaves every stable unit loaded, enabled and
\* running, every experimental unit loaded but neither enabled nor running,
\* the symlink present and the marker written with the tags
\* (installer_package, manual_update), without issuing a teardown operation.
C6_SuccessfulSetup ==
  (SetupReturned /\ base = AbsentHost /\ FailedAt = {}) =>
    /\ ret = Nil
    /\ host.loaded = AllUnits
    /\ host.enabled = StableSet
    /\ host.running = StableSet
    /\ host.symlink
    /\ host.installInfo = <<"installer_package", "manual_update">>
    /\ \A k \in 1..Len(log) : log[k].op \notin TeardownOps

\* a SetupAgent that ran to its last step on an all-absent host
C6_Witness ==
  /\ SetupReturned
  /\ base = AbsentHost
  /\ FailedAt = {}
  /\ Len(log) >= 1
  /\ log[Len(log)].op = "WriteInstallInfo"

\* C7: when a step of SetupAgent failed and every call of the rollback
\* succeeded, SetupAgent returns with every unit of both channels absent
\* (not loaded, not enabled, not running), no symlink and no marker.
C7_RollbackLeavesNothing ==
  (/\ SetupReturned
   /\ FailedAt # {}
   /\ \A k \in FailedAt : \A r \in Rollbacks : k < r) =>
    /\ host.loaded = {}
    /\ host.enabled = {}
    /\ host.running = {}
    /\ ~host.symlink
    /\ host.installInfo = NoInstallInfo

\* a SetupAgent over an installed host whose last start failed, rolled back
C7_Witness ==
  /\ SetupReturned
  /\ base = InstalledHost
  /\ \E k \in 1..Len(log) :
       /\ log[k].err # Nil
       /\ log[k].op = "startUnit"
       /\ log[k].unit = securityAgentUnit
  /\ FailedAt \cap {k \in 1..Len(log) : log[k].op \in TeardownOps} = {}
  /\ host = AbsentHost

\* the word the design uses for the action of a unit operation
ActionOf(op) ==
  CASE op = "loadUnit" -> "load"
    [] op = "enableUnit" -> "enable"
    [] op = "startUnit" -> "start"
    [] op = "stopUnit" -> "stop"
    [] op = "disableUnit" -> "disable"
    [] op = "removeUnit" -> "remove"
    [] OTHER -> "none"

\* the error text e names the action and the unit
Names(e, action, unit) ==
  /\ \E k \in 1..Len(e) : e[k] = action
  /\ \E k \in 1..Len(e) : e[k] = unit

\* C8 (as claimed): when a loadUnit, enableUnit or startUnit call failed in
\* SetupAgent, the error SetupAgent returns names the unit of that call and
\* the action attempted.
C8_SetupErrorNamesUnit ==
  (SetupReturned /\ SetupFailed) =>
    LET f == log[Min(FailedAt)] IN
      f.op \in {"loadUnit", "enableUnit", "startUnit"} =>
        Names(ret, ActionOf(f.op), f.unit)

\* the units the calls of the sequence l were issued on
Touched(l) == {l[k].unit : k \in 1..Len(l)}

\* C9: in a run of RemoveAgent a failed call is the last call issued; the
\* units not reached keep the state they had, the symlink and the marker
\* are kept, and the error RemoveAgent returns names the unit and the action
\* (stop, disable or remove) of the failed call.
C9_TeardownFailFast ==
  pc \in {"idle", "setup_defer_ret"} =>
  LET t == TeardownPart IN
    /\ \A k \in 1..Len(t) : t[k].err # Nil => k = Len(t)
    /\ (Len(t) >= 1 /\ t[Len(t)].err # Nil) =>
         LET f == t[Len(t)] IN
           /\ f.op # "rmAgentSymlink" =>
                LET r == IF pc = "idle" THEN ret ELSE err IN
                  /\ f.op \in {"stopUnit", "disableUnit", "removeUnit"}
                  /\ Names(r, ActionOf(f.op), f.unit)
           /\ fn = "RemoveAgent" =>
                /\ \A u \in AllUnits \ Touched(t) :
                     /\ u \in host.loaded <=> u \in base.loaded
                     /\ u \in host.enabled <=> u \in base.enabled
                     /\ u \in host.running <=> u \in base.running
                /\ host.installInfo = base.installInfo
                /\ f.op # "rmAgentSymlink" => host.symlink = base.symlink

\* a RemoveAgent over an installed host that failed at a disable
C9_Witness ==
  /\ RemoveReturned
  /\ base = InstalledHost
  /\ ret # Nil
  /\ log[Len(log)].op = "disableUnit"
  /\ log[Len(log)].unit = traceAgentExp
  /\ host.symlink
  /\ agentUnit \in host.loaded

\* C10 (as claimed): after a successful StartAgentExperiment followed by a
\* successful StopAgentExperiment the experimental main unit is not running,
\* StopAgentExperiment having issued a stop on it.
C10_StopStopsExperiment ==
  (/\ pc = "idle"
   /\ Len(calls) >= 2
   /\ calls[Len(calls) - 1] = [fn |-> "StartAgentExperiment", ok |-> TRUE]
   /\ calls[Len(calls)] = [fn |-> "StopAgentExperiment", ok |-> TRUE]) =>
    /\ agentExp \notin host.running
    /\ \E k \in 1..Len(log) : log[k].op = "stopUnit" /\ log[k].unit = agentExp

\* the host-observable state: unit presence, symlink, marker
Observable(h) == <<h.loaded, h.symlink, h.installInfo>>

SetupThenRemove ==
  /\ pc = "idle"
  /\ calls = <<[fn |-> "SetupAgent", ok |-> TRUE], [fn |-> "RemoveAgent", ok |-> TRUE]>>

\* C11 (as claimed): whatever the host was before, a successful SetupAgent
\* followed by a successful RemoveAgent leaves unit presence, symlink and
\* marker as they were before the SetupAgent.
C11_RoundTrip ==
  SetupThenRemove => Observable(host) = Observable(origin)

\* C11 (amended): a successful SetupAgent followed by a successful
\* RemoveAgent leaves no unit present, no symlink and no marker, whatever the
\* host was before; that is the state before the SetupAgent when the host
\* was all-absent then.
C11_RoundTripEndsAbsent ==
  SetupThenRemove =>
    /\ Observable(host) = Observable(AbsentHost)
    /\ origin = AbsentHost => Observable(host) = Observable(origin)

\* SetupAgent without a failure on an all-absent host, then RemoveAgent
C11_Witness ==
  /\ SetupThenRemove
  /\ origin = AbsentHost
  /\ faults = 0
  /\ host = AbsentHost

\* the query outputs in which the text dd-agent occurs
OutputsWithGroup ==
  { InstallerGroup \o <<" ">> \o AgentGroup \o <<"\n">>,
    InstallerGroup \o <<" ">> \o AgentGroup \o <<"s", "\n">> }

\* setInstallerAgentGroup has just returned into SetupAgent
GroupChecked ==
  /\ fn = "SetupAgent"
  /\ pc \in {"setup_load_stable", "setup_defer"}
  /\ log # <<>>
  /\ log[Len(log)].op \in GroupOps

HelperEntries == {k \in 1..Len(log) : log[k].op = "executeHelperCommand"}

SucceededBefore(l, op, u, k) ==
  \E j \in 1..(k - 1) : l[j].op = op /\ l[j].unit = u /\ l[j].err = Nil

\* positions of the log with a call of op
At(l, op) == {k \in 1..Len(l) : l[k].op = op}

AllLoads ==
  [k \in 1..Len(stableUnits) |-> <<"loadUnit", stableUnits[k]>>]
  \o [k \in 1..Len(experimentalUnits) |-> <<"loadUnit", experimentalUnits[k]>>]

AllEnables == [k \in 1..Len(stableUnits) |-> <<"enableUnit", stableUnits[k]>>]

\* the calls of SetupAgent after the group check
ForwardPart == SelectSeq(SetupPart, LAMBDA e : e.op \in ForwardOps)

\* C15: in SetupAgent a systemdReload, enableUnit or startUnit is issued only
\* after loadUnit has succeeded on the five stable and then the five
\* experimental units in registry order; systemdReload is issued at most
\* once, and once in a SetupAgent without failure; a startUnit is issued only
\* after enableUnit has succeeded on the five stable units in registry order.
C15_LoadBeforeActivate ==
  SetupReturned =>
    LET f == ForwardPart
        n == Len(AllLoads)
    IN /\ \A k \in 1..Len(f) :
            f[k].op \in {"systemdReload", "enableUnit", "startUnit"} =>
              /\ k > n
              /\ Issued(SubSeq(f, 1, n)) = AllLoads
              /\ \A j \in 1..n : f[j].err = Nil
       /\ Cardinality(At(f, "systemdReload")) <= 1
       /\ FailedAt = {} => Cardinality(At(f, "systemdReload")) = 1
       /\ \A k \in At(f, "startUnit") :
            /\ k > n + 1 + Len(AllEnables)
            /\ Issued(SubSeq(f, n + 2, n + 1 + Len(AllEnables))) = AllEnables
            /\ \A j \in (n + 2)..(n + 1 + Len(AllEnables)) : f[j].err = Nil

\* a SetupAgent that failed at the start of the second stable unit
C15_Witness ==
  /\ SetupReturned
  /\ \E k \in At(log, "startUnit") : log[k].unit = traceAgentUnit /\ log[k].err # Nil

\* C16: in RemoveAgent a disableUnit or removeUnit is issued only after
\* stopUnit has succeeded on all ten units; a unit is removed only after its
\* disableUnit succeeded; every experimental unit is disabled and removed
\* before a stable unit is disabled; rmAgentSymlink is issued only after all
\* ten units were removed, and RmInstallInfo only after rmAgentSymlink
\* succeeded.
C16_TeardownOrder ==
  pc = "idle" =>
  LET t == TeardownPart
      purges == At(t, "disableUnit") \cup At(t, "removeUnit")
      stableDisables == {k \in At(t, "disableUnit") : t[k].unit \in StableSet}
  IN /\ purges # {} =>
          \A u \in AllUnits : SucceededBefore(t, "stopUnit", u, Min(purges))
     /\ \A k \in At(t, "removeUnit") : SucceededBefore(t, "disableUnit", t[k].unit, k)
     /\ stableDisables # {} =>
          \A e \in ExpSet :
            /\ SucceededBefore(t, "disableUnit", e, Min(stableDisables))
            /\ SucceededBefore(t, "removeUnit", e, Min(stableDisables))
     /\ \A k \in At(t, "rmAgentSymlink") :
          \A u \in AllUnits : SucceededBefore(t, "removeUnit", u, k)
     /\ \A k \in At(t, "RmInstallInfo") : SucceededBefore(t, "rmAgentSymlink", "", k)

\* a RemoveAgent that ran to its end
C16_Witness ==
  /\ RemoveReturned
  /\ ret = Nil
  /\ At(log, "RmInstallInfo") # {}

\* C17: after the first failed step of SetupAgent no load, reload, enable,
\* start, symlink creation or marker write is issued in that invocation; the
\* calls that follow are those of the rollback.
C17_SetupFailFast ==
  (SetupReturned /\ FailedAt # {}) =>
    LET f == Min(FailedAt) IN
      \A k \in (f + 1)..Len(log) :
        /\ log[k].op \notin ForwardOps
        /\ log[k].op \notin GroupOps
        /\ log[k].op \in TeardownOps

\* a SetupAgent whose reload failed, rolled back to the end
C17_Witness ==
  /\ SetupReturned
  /\ \E k \in At(log, "systemdReload") : log[k].err # Nil
  /\ At(log, "RmInstallInfo") # {}

\* C18: within one invocation of SetupAgent (rollback included) or of
\* RemoveAgent no call is issued twice: each action on each unit and each
\* global action appears at most once, so a failed call is not tried again.
C18_NoRetry ==
  (pc = "idle" /\ fn \in {"SetupAgent", "RemoveAgent"}) =>
    Cardinality(Range(Issued(log))) = Len(log)

\* a SetupAgent in which a step and a call of the rollback both failed
C18_Witness ==
  /\ SetupReturned
  /\ Cardinality(FailedAt) = 2
  /\ log[Len(log)].op = "rmAgentSymlink"

\* C19: StartAgentExperiment issues one call, startUnit on the experimental
\* main unit, returns what that call returned, and leaves the other units of
\* both channels, the symlink and the marker as they were.
C19_StartExperimentFrame ==
  (pc = "idle" /\ fn = "StartAgentExperiment") =>
    /\ Issued(log) = << <<"startUnit", agentExp>> >>
    /\ ret = log[1].err
    /\ host.loaded = base.loaded
    /\ host.enabled = base.enabled
    /\ host.running \ {agentExp} = base.running \ {agentExp}
    /\ host.symlink = base.symlink
    /\ host.installInfo = base.installInfo

\* a StartAgentExperiment that started the experimental main unit
C19_Witness ==
  /\ pc = "idle"
  /\ fn = "StartAgentExperiment"
  /\ ret = Nil
  /\ agentExp \in host.running
  /\ agentExp \notin base.running

\* the class of an error: its text without the cause it wraps
ErrorClass(e) == IF e = Nil THEN Nil ELSE SubSeq(e, 1, Len(e) - 1)

\* a SetupAgent has returned that directly followed a first SetupAgent
SetupTwice ==
  /\ pc = "idle"
  /\ Len(calls) = 2
  /\ calls[1].fn = "SetupAgent"
  /\ calls[2].fn = "SetupAgent"

====
